---- MODULE Spec2Model ----
(***************************************************************************)
(* Model of base_external_referentials/reference.py: the registry of       *)
(* References and the resolution of mappers, binders, synchronizers and    *)
(* backend adapters along the parent chain.                                *)
(*                                                                         *)
(* Reference objects are numbered 1, 2, ... in the order of construction.  *)
(* The attributes of the objects are sequences indexed by that number.     *)
(* Python's None is the string "None" for attributes that hold strings or  *)
(* classes, and the number 0 for the parent attribute.                     *)
(***************************************************************************)
EXTENDS Naturals, Sequences, FiniteSets

\* ---------------------------------------------------------------- bounds
\* At most MaxRefs Reference objects are constructed in a behaviour.
MaxRefs == 3
\* At most MaxRegs classes are registered on all the references together.
MaxRegs == 2

\* ---------------------------------------------------------------- values
None == "None"
\* parent=None
NoParent == 0

\* The services and versions handed to the constructor and to the lookups.
\* The empty string is a service that is not None and not true.
Services == {None, "", "magento"}
Versions == {None, "1.7"}

\* The registries: the module-level REFERENCES and one made by the caller.
Registries == {"REFERENCES", "other"}

\* The classes handed to the register_* methods and to the decorator.
MapperClasses == {"MapA", "MapB"}
SynchronizerClasses == {"SyncA", "SyncB"}
BackendAdapterClasses == {"AdapA", "AdapB"}
BinderClasses == {"BindA", "BindMap"}
Classes ==
    MapperClasses \cup SynchronizerClasses \cup BackendAdapterClasses
        \cup BinderClasses \cup {"Plain"}

\* issubclass(cls, base)
Bases(cls) ==
    CASE cls \in {"MapA", "MapB"} -> {"Mapper"}
      [] cls \in {"SyncA", "SyncB"} -> {"Synchronizer"}
      [] cls \in {"AdapA", "AdapB"} -> {"BackendAdapter"}
      [] cls = "BindA" -> {"Binder"}
      [] cls = "BindMap" -> {"Binder", "Mapper"}
      [] OTHER -> {}

issubclass(cls, base) == base \in Bases(cls)

\* The arguments of the lookups.
Models == {"product", "partner"}
Directions == {"import"}
SynchroTypes == {"export"}

\* The match predicates of the capability classes (mapper.py, synchronizer.py
\* and backend_adapter.py): A classes accept the model "product" only, B
\* classes accept every model.
MapperMatch(proc, model, direction, child_of) ==
    /\ direction = "import"
    /\ child_of = None
    /\ \/ proc = "MapB"
       \/ proc \in {"MapA", "BindMap"} /\ model = "product"

SynchronizerMatch(sync, synchro_type, model) ==
    /\ synchro_type = "export"
    /\ \/ sync = "SyncB"
       \/ sync = "SyncA" /\ model = "product"

BackendAdapterMatch(proc, model) ==
    \/ proc = "AdapB"
    \/ proc = "AdapA" /\ model = "product"

\* Python truth of a string or a class: None and '' are false.
Truthy(x) == x \notin {None, ""}

\* ---------------------------------------------------------------- state
VARIABLES
    references,         \* ReferenceRegistry.references, per registry
    _service,           \* Reference._service
    version,            \* Reference.version
    parent,             \* Reference.parent (0 for None)
    _mappers,           \* Reference._mappers
    _binder,            \* Reference._binder
    _synchronizers,     \* Reference._synchronizers
    _backend_adapters,  \* Reference._backend_adapters
    call,               \* the call the caller has just made, or Idle
    ret                 \* how that call ended: a return or a raise

objs == <<_service, version, parent>>
caps == <<_mappers, _binder, _synchronizers, _backend_adapters>>
vars == <<references, _service, version, parent, _mappers, _binder,
          _synchronizers, _backend_adapters, call, ret>>

\* The Reference objects constructed so far.
Refs == 1..Len(_service)

\* How a call ends.
Return(x) == [kind |-> "return", ref |-> 0, val |-> x]
ReturnRef(r) == [kind |-> "return", ref |-> r, val |-> "Reference"]
Raise(e) == [kind |-> "raise", ref |-> 0, val |-> e]

Call(op, r, a, b, c) == [op |-> op, ref |-> r, a |-> a, b |-> b, c |-> c]

\* The caller between two calls: the module is synchronous and one call is
\* made at a time.  A call leaves its result in ret until the caller drops
\* it (Discard) and is free to make the next call.
Idle == Call("idle", 0, None, None, None)

\* ------------------------------------------------- Reference: the lookups
\* Reference.service: self._service or self.parent.service.  A false
\* _service on a reference without parent reads None.service.
RECURSIVE service(_)
service(r) ==
    IF Truthy(_service[r]) THEN Return(_service[r])
    ELSE IF parent[r] = NoParent THEN Raise("AttributeError")
    ELSE service(parent[r])

\* Reference.match: self.service == service and self.version == version
match(r, s, v) ==
    IF service(r).kind = "raise" THEN service(r)
    ELSE IF service(r).val = s /\ version[r] = v THEN Return("True")
    ELSE Return("False")

\* Reference.__str__ inside the message of a raise statement: the message is
\* formatted before the exception is made, and formatting reads self.service.
RaiseFor(r, e) ==
    IF service(r).kind = "raise" THEN service(r) ELSE Raise(e)

\* "found = None; for x in S: if x.match(...): found = x; break" over a
\* Python set, whose order of iteration is not fixed: every x of the set that
\* passes the test (the set passing) can be the one found.
Found(passing) == IF passing # {} THEN passing ELSE {None}

\* Mutant of Delegated: what the parent found is dropped and r raises.
Delegated_Dropped(r, outs, e) == {RaiseFor(r, e)}

\* What the delegation to the parent gives the caller at reference r: a None
\* from the parent becomes the ValueError of r, anything else passes.
Delegated(r, outs, e) ==
    {IF o = Return(None) THEN RaiseFor(r, e) ELSE o : o \in outs}

\* Reference.get_synchronizer
RECURSIVE get_synchronizer(_, _, _)
get_synchronizer(r, synchro_type, model) ==
    LET local == Found({sync \in _synchronizers[r] :
                           SynchronizerMatch(sync, synchro_type, model)})
    IN  UNION {IF synchronizer = None /\ parent[r] # NoParent
               THEN Delegated(r, get_synchronizer(parent[r], synchro_type,
                                                  model), "ValueError")
               ELSE {Return(synchronizer)} : synchronizer \in local}

\* Reference.get_mapper
RECURSIVE get_mapper(_, _, _, _)
\* Mutant of get_mapper: a reference with a parent asks the parent first.
get_mapper_ParentFirst(r, model, direction, child_of) ==
    LET local == {Return(mapper) : mapper \in
                     Found({proc \in _mappers[r] :
                            MapperMatch(proc, model, direction, child_of)})}
        above == IF parent[r] = NoParent THEN {Return(None)}
                 ELSE get_mapper(parent[r], model, direction, child_of)
    IN  UNION {IF o = Return(None) THEN local ELSE {o} : o \in above}

get_mapper(r, model, direction, child_of) ==
    LET local == Found({proc \in _mappers[r] :
                           MapperMatch(proc, model, direction, child_of)})
    IN  UNION {IF mapper = None /\ parent[r] # NoParent
               THEN Delegated(r, get_mapper(parent[r], model, direction,
                                            child_of), "ValueError")
               ELSE {Return(mapper)} : mapper \in local}

\* Reference.get_backend_adapter
RECURSIVE get_backend_adapter(_, _)
\* Mutant of get_backend_adapter: the first adapter of the set is taken
\* without asking its match.
get_backend_adapter_Unmatched(r, model) ==
    LET local == Found(_backend_adapters[r])
    IN  UNION {IF adapter = None /\ parent[r] # NoParent
               THEN Delegated(r, get_backend_adapter(parent[r], model),
                              "ValueError")
               ELSE {Return(adapter)} : adapter \in local}

get_backend_adapter(r, model) ==
    LET local == Found({proc \in _backend_adapters[r] :
                           BackendAdapterMatch(proc, model)})
    IN  UNION {IF adapter = None /\ parent[r] # NoParent
               THEN Delegated(r, get_backend_adapter(parent[r], model),
                              "ValueError")
               ELSE {Return(adapter)} : adapter \in local}

\* Reference.get_binder.  Without a binder and without a parent the local
\* variable binder is read before it is assigned.
RECURSIVE get_binder(_, _)
\* Mutant of get_binder: binder = None before the test of self._binder.
get_binder_Initialised(r, model) ==
    IF Truthy(_binder[r]) THEN {Return(_binder[r])}
    ELSE IF parent[r] # NoParent
         THEN Delegated(r, get_binder(parent[r], model), "ValueError")
         ELSE {Return(None)}

get_binder(r, model) ==
    IF Truthy(_binder[r]) THEN {Return(_binder[r])}
    ELSE IF parent[r] # NoParent
         THEN Delegated(r, get_binder(parent[r], model), "ValueError")
         ELSE {Raise("UnboundLocalError")}

\* ----------------------------------------------------- ReferenceRegistry
\* ReferenceRegistry.get_reference: the scan of self.references in an order
\* that is not fixed.  rest is the part of the set not yet visited.
RECURSIVE Scan(_, _, _)
Scan(rest, s, v) ==
    IF rest = {} THEN {Raise("ValueError")}
    ELSE UNION {IF match(reference, s, v).kind = "raise"
                THEN {match(reference, s, v)}
                ELSE IF match(reference, s, v) = Return("True")
                THEN {ReturnRef(reference)}
                ELSE Scan(rest \ {reference}, s, v) : reference \in rest}

registry_get_reference(registry, s, v) == Scan(references[registry], s, v)

\* The module-level get_reference
get_reference(s, v) == registry_get_reference("REFERENCES", s, v)

\* ---------------------------------------------------------------- actions
Init ==
    /\ references = [g \in Registries |-> {}]
    /\ _service = << >>
    /\ version = << >>
    /\ parent = << >>
    /\ _mappers = << >>
    /\ _binder = << >>
    /\ _synchronizers = << >>
    /\ _backend_adapters = << >>
    /\ call = Idle
    /\ ret = Return(None)

RECURSIVE Sum(_, _)
Sum(f, n) == IF n = 0 THEN 0 ELSE f[n] + Sum(f, n - 1)

\* The number of classes registered on all the references together.
Registered(m, b, s, a) ==
    Sum([r \in 1..Len(m) |-> Cardinality(m[r]) + Cardinality(s[r])
                              + Cardinality(a[r])
                              + (IF b[r] = None THEN 0 ELSE 1)], Len(m))

\* Mutant of register_reference: the set is replaced, not added to.
register_reference_Replaces(registry, reference) ==
    [references EXCEPT ![registry] = {reference}]

\* ReferenceRegistry.register_reference
register_reference(registry, reference) ==
    [references EXCEPT ![registry] = @ \cup {reference}]

\* Mutant of Construct: the check of service and parent is left out.
Construct_Unchecked(s, v, p, registry) ==
    /\ call = Idle
    /\ call' = Call("Reference", p, s, v, registry)
    /\ Len(_service) < MaxRefs
    /\ _service' = Append(_service, s)
    /\ version' = Append(version, v)
    /\ parent' = Append(parent, p)
    /\ _mappers' = Append(_mappers, {})
    /\ _binder' = Append(_binder, None)
    /\ _synchronizers' = Append(_synchronizers, {})
    /\ _backend_adapters' = Append(_backend_adapters, {})
    /\ references' =
           register_reference(IF registry = None THEN "REFERENCES"
                              ELSE registry, Len(_service) + 1)
    /\ ret' = ReturnRef(Len(_service) + 1)

\* Mutant of Construct: self.parent = parent or self.
Construct_ParentOrSelf(s, v, p, registry) ==
    /\ call = Idle
    /\ call' = Call("Reference", p, s, v, registry)
    /\ IF s = None /\ p = NoParent
       THEN /\ ret' = Raise("ValueError")
            /\ UNCHANGED <<references, objs, caps>>
       ELSE /\ Len(_service) < MaxRefs
            /\ _service' = Append(_service, s)
            /\ version' = Append(version, v)
            /\ parent' = Append(parent, IF p = NoParent
                                        THEN Len(_service) + 1 ELSE p)
            /\ _mappers' = Append(_mappers, {})
            /\ _binder' = Append(_binder, None)
            /\ _synchronizers' = Append(_synchronizers, {})
            /\ _backend_adapters' = Append(_backend_adapters, {})
            /\ references' =
                   register_reference(IF registry = None THEN "REFERENCES"
                                      ELSE registry, Len(_service) + 1)
            /\ ret' = ReturnRef(Len(_service) + 1)

\* Mutant of Construct: service and parent are checked at the end of
\* __init__, after the reference has been set up and registered.
Construct_LateCheck(s, v, p, registry) ==
    /\ call = Idle
    /\ call' = Call("Reference", p, s, v, registry)
    /\ Len(_service) < MaxRefs
    /\ _service' = Append(_service, s)
    /\ version' = Append(version, v)
    /\ parent' = Append(parent, p)
    /\ _mappers' = Append(_mappers, {})
    /\ _binder' = Append(_binder, None)
    /\ _synchronizers' = Append(_synchronizers, {})
    /\ _backend_adapters' = Append(_backend_adapters, {})
    /\ references' =
           register_reference(IF registry = None THEN "REFERENCES"
                              ELSE registry, Len(_service) + 1)
    /\ ret' = IF s = None /\ p = NoParent THEN Raise("ValueError")
              ELSE ReturnRef(Len(_service) + 1)

\* Reference.__init__; registry=None is the module-level REFERENCES.
Construct(s, v, p, registry) ==
    /\ call = Idle
    /\ call' = Call("Reference", p, s, v, registry)
    /\ IF s = None /\ p = NoParent
       THEN /\ ret' = Raise("ValueError")
            /\ UNCHANGED <<references, objs, caps>>
       ELSE /\ Len(_service) < MaxRefs
            /\ _service' = Append(_service, s)
            /\ version' = Append(version, v)
            /\ parent' = Append(parent, p)
            /\ _mappers' = Append(_mappers, {})
            /\ _binder' = Append(_binder, None)
            /\ _synchronizers' = Append(_synchronizers, {})
            /\ _backend_adapters' = Append(_backend_adapters, {})
            /\ references' =
                   register_reference(IF registry = None THEN "REFERENCES"
                                      ELSE registry, Len(_service) + 1)
            /\ ret' = ReturnRef(Len(_service) + 1)

\* registry.register_reference(reference) called on an existing reference.
RegisterReference(registry, reference) ==
    /\ call = Idle
    /\ call' = Call("register_reference", reference, registry, None, None)
    /\ references' = register_reference(registry, reference)
    /\ ret' = Return(None)
    /\ UNCHANGED <<objs, caps>>

\* Mutant of Lookup: get_binder keeps the binder it found on the reference
\* it was asked on.
Lookup_Caching(c, outs) ==
    /\ call = Idle
    /\ call' = c
    /\ ret' \in outs
    /\ _binder' = IF c.op = "get_binder" /\ ret'.kind = "return"
                  THEN [_binder EXCEPT ![c.ref] = ret'.val]
                  ELSE _binder
    /\ UNCHANGED <<references, objs, _mappers, _synchronizers,
                   _backend_adapters>>

\* A lookup: the call ends in one of the ways outs and changes nothing.
Lookup(c, outs) ==
    /\ call = Idle
    /\ call' = c
    /\ ret' \in outs
    /\ UNCHANGED <<references, objs, caps>>

GetReference(s, v) ==
    Lookup(Call("get_reference", 0, s, v, None), get_reference(s, v))

Match(r, s, v) == Lookup(Call("match", r, s, v, None), {match(r, s, v)})

Service(r) == Lookup(Call("service", r, None, None, None), {service(r)})

GetSynchronizer(r, synchro_type, model) ==
    Lookup(Call("get_synchronizer", r, synchro_type, model, None),
           get_synchronizer(r, synchro_type, model))

GetMapper(r, model, direction, child_of) ==
    Lookup(Call("get_mapper", r, model, direction, child_of),
           get_mapper(r, model, direction, child_of))

GetBackendAdapter(r, model) ==
    Lookup(Call("get_backend_adapter", r, model, None, None),
           get_backend_adapter(r, model))

GetBinder(r, model) ==
    Lookup(Call("get_binder", r, model, None, None), get_binder(r, model))

\* The registrations leave the registry and the objects' own fields alone;
\* the guard on Registered' keeps the model finite.
Registration(c, out) ==
    /\ call' = c
    /\ ret' = out
    /\ Registered(_mappers', _binder', _synchronizers', _backend_adapters')
           <= MaxRegs
    /\ UNCHANGED <<references, objs>>

\* Mutant of register_binder: a binder already registered is kept.
register_binder_KeepFirst(r, binder) ==
    IF _binder[r] = None THEN [_binder EXCEPT ![r] = binder] ELSE _binder

\* Reference.register_binder
register_binder(r, binder) == [_binder EXCEPT ![r] = binder]

\* Reference.register_synchronizer
register_synchronizer(r, synchronizer) ==
    [_synchronizers EXCEPT ![r] = @ \cup {synchronizer}]

\* Mutant of register_mapper: _mappers is one set shared by all references
\* (an attribute of the class).
register_mapper_Shared(r, mapper) ==
    [x \in DOMAIN _mappers |-> _mappers[x] \cup {mapper}]

\* Reference.register_mapper
register_mapper(r, mapper) == [_mappers EXCEPT ![r] = @ \cup {mapper}]

\* Reference.register_backend_adapter
register_backend_adapter(r, adapter) ==
    [_backend_adapters EXCEPT ![r] = @ \cup {adapter}]

RegisterBinder(r, binder) ==
    /\ call = Idle
    /\ _binder' = register_binder(r, binder)
    /\ UNCHANGED <<_mappers, _synchronizers, _backend_adapters>>
    /\ Registration(Call("register_binder", r, binder, None, None),
                    Return(None))

RegisterSynchronizer(r, synchronizer) ==
    /\ call = Idle
    /\ _synchronizers' = register_synchronizer(r, synchronizer)
    /\ UNCHANGED <<_mappers, _binder, _backend_adapters>>
    /\ Registration(Call("register_synchronizer", r, synchronizer, None,
                         None), Return(None))

RegisterMapper(r, mapper) ==
    /\ call = Idle
    /\ _mappers' = register_mapper(r, mapper)
    /\ UNCHANGED <<_binder, _synchronizers, _backend_adapters>>
    /\ Registration(Call("register_mapper", r, mapper, None, None),
                    Return(None))

RegisterBackendAdapter(r, adapter) ==
    /\ call = Idle
    /\ _backend_adapters' = register_backend_adapter(r, adapter)
    /\ UNCHANGED <<_mappers, _binder, _synchronizers>>
    /\ Registration(Call("register_backend_adapter", r, adapter, None,
                         None), Return(None))

\* Mutant of remove: set.discard(x), which ignores an absent x.
remove_Discard(S, x) == Return(None)

\* set.remove(x): KeyError when x is not in the set.
remove(S, x) == IF x \in S THEN Return(None) ELSE Raise("KeyError")

\* Reference.unregister_synchronizer
UnregisterSynchronizer(r, synchronizer) ==
    /\ call = Idle
    /\ _synchronizers' = [_synchronizers EXCEPT ![r] = @ \ {synchronizer}]
    /\ UNCHANGED <<_mappers, _binder, _backend_adapters>>
    /\ Registration(Call("unregister_synchronizer", r, synchronizer, None,
                         None), remove(_synchronizers[r], synchronizer))

\* Reference.unregister_mapper
UnregisterMapper(r, mapper) ==
    /\ call = Idle
    /\ _mappers' = [_mappers EXCEPT ![r] = @ \ {mapper}]
    /\ UNCHANGED <<_binder, _synchronizers, _backend_adapters>>
    /\ Registration(Call("unregister_mapper", r, mapper, None, None),
                    remove(_mappers[r], mapper))

\* Reference.unregister_backend_adapter
UnregisterBackendAdapter(r, adapter) ==
    /\ call = Idle
    /\ _backend_adapters' = [_backend_adapters EXCEPT ![r] = @ \ {adapter}]
    /\ UNCHANGED <<_mappers, _binder, _synchronizers>>
    /\ Registration(Call("unregister_backend_adapter", r, adapter, None,
                         None), remove(_backend_adapters[r], adapter))

\* Mutant of Decorate: issubclass(cls, Mapper) is tested before Binder.
Decorate_MapperFirst(r, cls) ==
    /\ call = Idle
    /\ IF issubclass(cls, "Mapper")
       THEN /\ _mappers' = register_mapper(r, cls)
            /\ UNCHANGED <<_binder, _synchronizers, _backend_adapters>>
       ELSE IF issubclass(cls, "Binder")
       THEN /\ _binder' = register_binder(r, cls)
            /\ UNCHANGED <<_mappers, _synchronizers, _backend_adapters>>
       ELSE IF issubclass(cls, "Synchronizer")
       THEN /\ _synchronizers' = register_synchronizer(r, cls)
            /\ UNCHANGED <<_mappers, _binder, _backend_adapters>>
       ELSE IF issubclass(cls, "BackendAdapter")
       THEN /\ _backend_adapters' = register_backend_adapter(r, cls)
            /\ UNCHANGED <<_mappers, _binder, _synchronizers>>
       ELSE UNCHANGED caps
    /\ Registration(Call("__call__", r, cls, None, None),
                    IF Bases(cls) = {} THEN RaiseFor(r, "TypeError")
                    ELSE Return(cls))

\* Reference.__call__: the decorator
Decorate(r, cls) ==
    /\ call = Idle
    /\ IF issubclass(cls, "Binder")
       THEN /\ _binder' = register_binder(r, cls)
            /\ UNCHANGED <<_mappers, _synchronizers, _backend_adapters>>
       ELSE IF issubclass(cls, "Synchronizer")
       THEN /\ _synchronizers' = register_synchronizer(r, cls)
            /\ UNCHANGED <<_mappers, _binder, _backend_adapters>>
       ELSE IF issubclass(cls, "Mapper")
       THEN /\ _mappers' = register_mapper(r, cls)
            /\ UNCHANGED <<_binder, _synchronizers, _backend_adapters>>
       ELSE IF issubclass(cls, "BackendAdapter")
       THEN /\ _backend_adapters' = register_backend_adapter(r, cls)
            /\ UNCHANGED <<_mappers, _binder, _synchronizers>>
       ELSE UNCHANGED caps
    /\ Registration(Call("__call__", r, cls, None, None),
                    IF Bases(cls) = {} THEN RaiseFor(r, "TypeError")
                    ELSE Return(cls))

\* The caller drops the result of the call and can make the next one.
Discard ==
    /\ call # Idle
    /\ call' = Idle
    /\ ret' = Return(None)
    /\ UNCHANGED <<references, objs, caps>>

\* The lookups, on every reference and with every argument.
Lookups ==
    \/ \E s \in Services, v \in Versions : GetReference(s, v)
    \/ \E r \in Refs, s \in Services, v \in Versions : Match(r, s, v)
    \/ \E r \in Refs : Service(r)
    \/ \E r \in Refs, t \in SynchroTypes, m \in Models :
          GetSynchronizer(r, t, m)
    \/ \E r \in Refs, m \in Models, d \in Directions :
          GetMapper(r, m, d, None)
    \/ \E r \in Refs, m \in Models : GetBackendAdapter(r, m)
    \/ \E r \in Refs, m \in Models : GetBinder(r, m)

\* The registrations, on every reference and with every class.
Registrations ==
    \/ \E r \in Refs, binder \in BinderClasses : RegisterBinder(r, binder)
    \/ \E r \in Refs, synchronizer \in SynchronizerClasses :
          RegisterSynchronizer(r, synchronizer)
    \/ \E r \in Refs, mapper \in MapperClasses : RegisterMapper(r, mapper)
    \/ \E r \in Refs, adapter \in BackendAdapterClasses :
          RegisterBackendAdapter(r, adapter)
    \/ \E r \in Refs, synchronizer \in SynchronizerClasses :
          UnregisterSynchronizer(r, synchronizer)
    \/ \E r \in Refs, mapper \in MapperClasses : UnregisterMapper(r, mapper)
    \/ \E r \in Refs, adapter \in BackendAdapterClasses :
          UnregisterBackendAdapter(r, adapter)
    \/ \E r \in Refs, cls \in Classes : Decorate(r, cls)

\* The program as its callers use it: references of the default registry,
\* told apart by service and parent (the resolution of the capabilities never
\* reads the version or the registry), and every operation on them.
Next ==
    \/ \E s \in Services, p \in {NoParent} \cup Refs :
          Construct(s, None, p, None)
    \/ Lookups
    \/ Registrations
    \/ Discard

Spec == Init /\ [][Next]_vars

\* The registry on its own: references of every service, version, parent and
\* registry, registered again at will, and the lookups that read them.
NextRegistry ==
    \/ \E s \in Services, v \in Versions, p \in {NoParent} \cup Refs,
          registry \in {None, "other"} : Construct(s, v, p, registry)
    \/ \E registry \in Registries, r \in Refs :
          RegisterReference(registry, r)
    \/ \E s \in Services, v \in Versions : GetReference(s, v)
    \/ \E r \in Refs, s \in Services, v \in Versions : Match(r, s, v)
    \/ \E r \in Refs : Service(r)
    \/ Discard

SpecRegistry == Init /\ [][NextRegistry]_vars

\* ======================================================================
\* Properties
\* ======================================================================
\* r and its ancestors.
RECURSIVE Chain(_)
Chain(r) == {r} \cup (IF parent[r] = NoParent THEN {} ELSE Chain(parent[r]))

\* The proper ancestors of r.
Ancestors(r) == Chain(r) \ {r}

Getters == {"get_mapper", "get_synchronizer", "get_backend_adapter"}

\* The classes registered on reference x that accept the arguments of the
\* getter call c (for get_binder: the binder of x, whatever the model).
Accepting(c, x) ==
    CASE c.op = "get_mapper" ->
             {m \in _mappers[x] : MapperMatch(m, c.a, c.b, c.c)}
      [] c.op = "get_synchronizer" ->
             {y \in _synchronizers[x] : SynchronizerMatch(y, c.a, c.b)}
      [] c.op = "get_backend_adapter" ->
             {a \in _backend_adapters[x] : BackendAdapterMatch(a, c.a)}
      [] c.op = "get_binder" ->
             IF _binder[x] = None THEN {} ELSE {_binder[x]}
      [] OTHER -> {}

\* x is the nearest of the references X that has a class accepting c.
Nearest(c, X, x) ==
    /\ x \in X
    /\ Accepting(c, x) # {}
    /\ \A y \in X : Accepting(c, y) # {} => y \in Chain(x)

\* ---------------------------------------------------------------- C1
\* C1: once Reference(service=s, version=v) has been constructed in the
\* default registry, get_reference(s, v) returns that very instance.
C1_Claim ==
    call.op = "get_reference" =>
        \A r \in references["REFERENCES"] :
            (_service[r] = call.a /\ _service[r] # None
                /\ version[r] = call.b /\ parent[r] = NoParent)
            => ret = ReturnRef(r)

\* ---------------------------------------------------------------- C2
\* C2: when neither r nor any ancestor of r has a registered class that
\* accepts the arguments, get_mapper, get_synchronizer and
\* get_backend_adapter raise the not-found error (ValueError) and return
\* nothing.
C2_Claim ==
    (call.op \in Getters
        /\ \A x \in Chain(call.ref) : Accepting(call, x) = {})
    => ret = Raise("ValueError")

\* ---------------------------------------------------------------- C3
\* C3 as stated: when the reference has no accepting class of its own, every
\* accepting class m registered on any ancestor is the one returned.
C3_Original ==
    (call.op \in Getters \cup {"get_binder"}
        /\ Accepting(call, call.ref) = {})
    => \A x \in Ancestors(call.ref) :
           \A m \in Accepting(call, x) : ret = Return(m)

\* C3 as amended: when the reference has no accepting class of its own
\* and some ancestor has one, the getter returns an accepting class of the
\* nearest such ancestor (so the class m when it is the only one there).
C3_ParentFallback ==
    (call.op \in Getters \cup {"get_binder"}
        /\ Accepting(call, call.ref) = {})
    => \A x \in Ancestors(call.ref) :
           Nearest(call, Ancestors(call.ref), x)
           => /\ ret.kind = "return"
              /\ ret.val \in Accepting(call, x)

\* The fallback passes through a reference in between: the class comes from
\* the grandparent.
C3_Witness ==
    /\ call.op \in Getters \cup {"get_binder"}
    /\ Accepting(call, call.ref) = {}
    /\ parent[call.ref] # NoParent
    /\ Accepting(call, parent[call.ref]) = {}
    /\ \E x \in Ancestors(parent[call.ref]) :
          /\ Accepting(call, x) # {}
          /\ ret.kind = "return"
          /\ ret.val \in Accepting(call, x)

\* ---------------------------------------------------------------- C4
\* C4: when a reference has a mapper of its own accepting (model,
\* direction), get_mapper returns a mapper registered on that reference,
\* whatever its ancestors have registered; asked of the parent, the same
\* holds of the parent's own mappers.
C4_Shadowing ==
    (call.op = "get_mapper" /\ Accepting(call, call.ref) # {})
    => /\ ret.kind = "return"
       /\ ret.val \in Accepting(call, call.ref)

\* The child and its parent both have an accepting mapper, the parent's is
\* not registered on the child, and the child's is returned.
C4_Witness ==
    /\ call.op = "get_mapper"
    /\ parent[call.ref] # NoParent
    /\ Accepting(call, call.ref) # {}
    /\ Accepting(call, parent[call.ref]) # {}
    /\ Accepting(call, parent[call.ref]) \cap _mappers[call.ref] = {}
    /\ ret.kind = "return"
    /\ ret.val \in _mappers[call.ref]

\* ---------------------------------------------------------------- C5
\* C5: get_reference raises the not-found error (ValueError) whenever no
\* reference of the registry has the resolved service and the version asked
\* for, and what it returns has that service and that version.
C5_Claim ==
    call.op = "get_reference" =>
        /\ (\A r \in references["REFERENCES"] :
                ~(service(r) = Return(call.a) /\ version[r] = call.b))
           => ret = Raise("ValueError")
        /\ ret.kind = "return"
           => /\ ret.ref \in references["REFERENCES"]
              /\ service(ret.ref) = Return(call.a)
              /\ version[ret.ref] = call.b

\* ---------------------------------------------------------------- C6
\* C6: constructing a Reference with neither a service nor a parent raises
\* the configuration error (ValueError), and no reference of a registry is
\* without both.
C6_Construction ==
    /\ (call.op = "Reference" /\ call.a = None /\ call.ref = NoParent)
       => ret = Raise("ValueError")
    /\ \A g \in Registries : \A r \in references[g] :
           ~(_service[r] = None /\ parent[r] = NoParent)
    /\ \A r \in Refs : ~(_service[r] = None /\ parent[r] = NoParent)

\* The construction has failed in a registry that has members.
C6_Witness ==
    /\ call.op = "Reference"
    /\ call.a = None
    /\ call.ref = NoParent
    /\ ret = Raise("ValueError")
    /\ references["REFERENCES"] # {}
    /\ references["other"] # {}

\* ---------------------------------------------------------------- C7
\* C7: calling a reference with a class that is a Binder only makes
\* get_binder of that reference return the class; calling it with a class
\* that is none of the four raises TypeError.
C7_Claim ==
    call.op = "__call__" =>
        /\ Bases(call.a) = {"Binder"}
           => \A model \in Models :
                  get_binder(call.ref, model) = {Return(call.a)}
        /\ Bases(call.a) = {} => ret = Raise("TypeError")

\* ---------------------------------------------------------------- C8
\* C8: register_mapper(m) leaves m in the mapper set; unregister_mapper(m)
\* on a set that holds m returns and leaves the set without m; on a set that
\* does not hold m it raises the lookup error (KeyError), and so do
\* unregister_synchronizer and unregister_backend_adapter.
Unregistered(op, set) ==
    call'.op = op =>
        /\ call'.a \notin set'[call'.ref]
        /\ ret' = IF call'.a \in set[call'.ref] THEN Return(None)
                  ELSE Raise("KeyError")

C8_RoundTrip ==
    [][/\ call'.op = "register_mapper" => call'.a \in _mappers'[call'.ref]
       /\ Unregistered("unregister_mapper", _mappers)
       /\ Unregistered("unregister_synchronizer", _synchronizers)
       /\ Unregistered("unregister_backend_adapter", _backend_adapters)]_vars

\* The second unregister_mapper: the class is not registered, the call has
\* raised, and another mapper is still registered on the reference.
C8_Witness ==
    /\ call.op = "unregister_mapper"
    /\ ret = Raise("KeyError")
    /\ _mappers[call.ref] # {}

\* ---------------------------------------------------------------- C9
\* C9: reading r.service never fails and gives the service of the nearest
\* of r and its ancestors that was constructed with one.
C9_Claim ==
    call.op = "service" =>
        /\ ret.kind = "return"
        /\ \E x \in Chain(call.ref) :
              /\ _service[x] # None
              /\ \A y \in Chain(call.ref) : _service[y] # None => y \in Chain(x)
              /\ ret.val = _service[x]

\* ---------------------------------------------------------------- C10
\* C10: register_binder(b) makes b the binder of the reference, replacing
\* the one it had; get_binder of a reference that has a binder returns it,
\* for every model and whatever binders its ancestors have.
C10_SingleBinder ==
    /\ call.op = "register_binder"
       => /\ _binder[call.ref] = call.a
          /\ \A model \in Models :
                 get_binder(call.ref, model) = {Return(call.a)}
    /\ (call.op = "get_binder" /\ _binder[call.ref] # None)
       => ret = Return(_binder[call.ref])

\* get_binder on a reference whose parent has another binder.
C10_Witness ==
    /\ call.op = "get_binder"
    /\ parent[call.ref] # NoParent
    /\ _binder[call.ref] # None
    /\ _binder[parent[call.ref]] \notin {None, _binder[call.ref]}
    /\ ret = Return(_binder[call.ref])

C12_Claim ==
    (call.op \in Getters /\ parent[call.ref] # NoParent
        /\ \A x \in Chain(call.ref) : Accepting(call, x) = {})
    => ret = Raise("ValueError")

\* ---------------------------------------------------------------- C13
\* C13: an implementation returned by get_mapper, get_synchronizer or
\* get_backend_adapter accepts the arguments and is registered on the
\* nearest of the reference and its ancestors that has an accepting class.
C13_NearestLevel ==
    (call.op \in Getters /\ ret.kind = "return" /\ ret.val # None)
    => \E x \in Chain(call.ref) :
           /\ Nearest(call, Chain(call.ref), x)
           /\ ret.val \in Accepting(call, x)

\* The reference has no accepting class, two classes of its parent accept
\* the arguments, and one of the two is returned.
C13_Witness ==
    /\ call.op \in Getters
    /\ ret.kind = "return"
    /\ parent[call.ref] # NoParent
    /\ Accepting(call, call.ref) = {}
    /\ Cardinality(Accepting(call, parent[call.ref])) = 2
    /\ ret.val \in Accepting(call, parent[call.ref])

\* ---------------------------------------------------------------- C14
Kinds == {"Binder", "Synchronizer", "Mapper", "BackendAdapter"}

\* The first of Binder, Synchronizer, Mapper, BackendAdapter that cls is.
FirstKind(cls) ==
    IF "Binder" \in Bases(cls) THEN "Binder"
    ELSE IF "Synchronizer" \in Bases(cls) THEN "Synchronizer"
    ELSE IF "Mapper" \in Bases(cls) THEN "Mapper"
    ELSE "BackendAdapter"

\* The classes of kind k that reference r holds, given the four containers.
Held(m, b, y, a, k, r) ==
    CASE k = "Mapper" -> m[r]
      [] k = "Binder" -> IF b[r] = None THEN {} ELSE {b[r]}
      [] k = "Synchronizer" -> y[r]
      [] k = "BackendAdapter" -> a[r]

\* C14: calling a reference with a class of one of the four kinds registers
\* the class under the first kind it is, in the order Binder, Synchronizer,
\* Mapper, BackendAdapter, leaves what the reference holds of the other
\* kinds as it was, and returns the class.
C14_Classification ==
    [][(call'.op = "__call__" /\ Bases(call'.a) # {}) =>
        /\ ret' = Return(call'.a)
        /\ \A k \in Kinds :
              LET before == Held(_mappers, _binder, _synchronizers,
                                 _backend_adapters, k, call'.ref)
                  after == Held(_mappers', _binder', _synchronizers',
                                _backend_adapters', k, call'.ref)
              IN  IF k # FirstKind(call'.a) THEN after = before
                  ELSE IF k = "Binder" THEN after = {call'.a}
                  ELSE after = before \cup {call'.a}]_vars

\* A class that is a Binder and a Mapper has become the binder and is not
\* among the mappers.
C14_Witness ==
    /\ call.op = "__call__"
    /\ call.a = "BindMap"
    /\ ret = Return("BindMap")
    /\ _binder[call.ref] = "BindMap"
    /\ "BindMap" \notin _mappers[call.ref]

\* ---------------------------------------------------------------- C15
LookupOps ==
    {"get_reference", "match", "service", "get_mapper", "get_binder",
     "get_synchronizer", "get_backend_adapter"}

\* C15: get_reference, match, service and the four getters leave the
\* registries and every field of every reference as they were, whether
\* they return or raise.
C15_PureReads ==
    [][call'.op \in LookupOps => UNCHANGED <<references, objs, caps>>]_vars

\* get_binder has returned the binder of the parent and the reference
\* still has none.
C15_Witness ==
    /\ call.op = "get_binder"
    /\ ret.kind = "return"
    /\ ret.val # None
    /\ _binder[call.ref] = None

\* ---------------------------------------------------------------- C16
\* C16: no step removes a reference from a registry; a constructed
\* reference is in the registry it was constructed for, and every reference
\* is in some registry; register_reference of a member changes nothing.
C16_RegistryGrows ==
    [][/\ \A g \in Registries : references[g] \subseteq references'[g]
       /\ \A r \in 1..Len(_service') :
             \E g \in Registries : r \in references'[g]
       /\ (call'.op = "Reference" /\ ret'.kind = "return")
          => ret'.ref \in references'[IF call'.c = None THEN "REFERENCES"
                                      ELSE call'.c]
       /\ (call'.op = "register_reference"
              /\ call'.ref \in references[call'.a])
          => references' = references]_vars

\* A reference of the default registry has been registered there again,
\* next to another reference.
C16_Witness ==
    /\ call.op = "register_reference"
    /\ call.a = "REFERENCES"
    /\ call.ref \notin references["other"]
    /\ Cardinality(references["REFERENCES"]) >= 2

\* ---------------------------------------------------------------- C17
\* C17: the parent of a reference was constructed before it, so the chain
\* of parents has no cycle, is no longer than the number of references and
\* ends in a reference without parent; the getters and the service property,
\* which follow that chain, end by returning or raising.
C17_Termination ==
    /\ \A r \in Refs : parent[r] \in 0..(r - 1)
    /\ \A r \in Refs :
          /\ \E x \in Chain(r) : parent[x] = NoParent
          /\ Cardinality(Chain(r)) <= Len(_service)
    /\ call.op \in Getters \cup {"get_binder", "service"}
       => ret.kind \in {"return", "raise"}

\* A getter has ended on a reference with a parent and a grandparent.
C17_Witness ==
    /\ call.op \in Getters \cup {"get_binder", "service"}
    /\ Cardinality(Chain(call.ref)) = 3
    /\ ret.kind \in {"return", "raise"}

\* ---------------------------------------------------------------- C18
\* C18: a construction, an unregister_* call or a call of the reference
\* that raises leaves the registries and every field of every reference as
\* they were.
C18_FailuresChangeNothing ==
    [][(ret'.kind = "raise"
          /\ call'.op \in {"Reference", "unregister_mapper",
                           "unregister_synchronizer",
                           "unregister_backend_adapter", "__call__"})
       => UNCHANGED <<references, objs, caps>>]_vars

\* The call of a reference with a class of no kind has raised TypeError on a
\* reference that has classes registered.
C18_Witness ==
    /\ call.op = "__call__"
    /\ ret = Raise("TypeError")
    /\ _mappers[call.ref] # {}
    /\ _binder[call.ref] # None

\* ---------------------------------------------------------------- C19
\* A call of one of ops on reference r changes, of all the containers, only
\* the container own of r.
OnlyOwn(ops, own, rest) ==
    call'.op \in ops =>
        /\ \A x \in Refs \ {call'.ref} : own'[x] = own[x]
        /\ rest' = rest
        /\ UNCHANGED <<references, objs>>

\* C19: register_* and unregister_* on reference r change only r's
\* container of that kind: not r's other containers, not a container of
\* another reference, not the registries.
C19_LocalRegistration ==
    [][/\ OnlyOwn({"register_mapper", "unregister_mapper"}, _mappers,
                  <<_binder, _synchronizers, _backend_adapters>>)
       /\ OnlyOwn({"register_binder"}, _binder,
                  <<_mappers, _synchronizers, _backend_adapters>>)
       /\ OnlyOwn({"register_synchronizer", "unregister_synchronizer"},
                  _synchronizers,
                  <<_mappers, _binder, _backend_adapters>>)
       /\ OnlyOwn({"register_backend_adapter",
                   "unregister_backend_adapter"}, _backend_adapters,
                  <<_mappers, _binder, _synchronizers>>)]_vars

\* A mapper has been registered on a reference that has a parent and a
\* child, both without mappers.
C19_Witness ==
    /\ call.op = "register_mapper"
    /\ call.a \in _mappers[call.ref]
    /\ parent[call.ref] # NoParent
    /\ _mappers[parent[call.ref]] = {}
    /\ \E x \in Refs : parent[x] = call.ref /\ _mappers[x] = {}

====
